---- MODULE Spec2Model ----
(***************************************************************************)
(* Model of src/src/04_skill_portability.py: the skill-portability         *)
(* pipeline main() = build_switching_regression_data, step1_ols_residualize,*)
(* step2_random_forest, compute_aggregate_portability, save.               *)
(*                                                                         *)
(* Numbers. Counts (weighted_switches, weighted_stayers, emp_pre) are      *)
(* naturals. A float that may be non-finite is a record with a kind k in   *)
(* "fin", "inf", "ninf", "nan". Logs and residuals are fixed-point reals   *)
(* in units of 1e-12, held as <<hi, lo>> = hi * FxBase + lo, 0 <= lo <     *)
(* FxBase, so that the tolerance 1e-10 of the residualizer is 100 units    *)
(* and a natural log of magnitude 10 still fits TLC's integers.            *)
(***************************************************************************)
EXTENDS Integers, Sequences, FiniteSets, TLC

VARIABLES
    switchFile,   \* cps_switching_matrix.csv: rows [occ_origin, occ_dest, weighted_switches]
    stayerFile,   \* cps_stayer_counts.csv: rows [occ, weighted_stayers]
    skillFile,    \* skill_matrix_by_occ2010.csv: occupation -> skill vector
    empFile,      \* cps_employment_changes.csv: rows [occ, emp_pre]
    pc,           \* position of main()
    err,          \* the exception that ended the run, "none" while it runs
    stdout,       \* what the run printed, as message tags
    switches,     \* the table build_switching_regression_data returned
    residuals,    \* step1's residuals array (one fixed-point value per row)
    iter,         \* completed passes of step1's loop
    converged,    \* step1's loop was left by its break
    switches_fe,  \* the table step1_ols_residualize returned
    r2_fe,        \* step1's reported R^2, [k, ssr, sst] = 1 - ssr / sst
    rf,           \* step2's estimator object
    cv_scores,    \* what cross_val_score returned
    switches_rf,  \* the table step2_random_forest returned
    importances,  \* step2's feature importances, in feature order
    agg_df,       \* the aggregator's occupation table
    port,         \* the aggregator's pairwise table
    written       \* the output files written, name -> content

vars == <<switchFile, stayerFile, skillFile, empFile, pc, err, stdout, switches,
          residuals, iter, converged, switches_fe, r2_fe, rf, cv_scores,
          switches_rf, importances, agg_df, port, written>>

----------------------------------------------------------------------------
(* Fixed-point reals, unit 1e-12 *)

FxBase == 10000 * 10000

\* an array held by value: every element computed once, in order
AsArray(s) == SubSeq(s, 1, Len(s))

FxZero == <<0, 0>>

FxNorm(hi, lo) == <<hi + (lo \div FxBase), lo % FxBase>>

FxAdd(a, b) == FxNorm(a[1] + b[1], a[2] + b[2])

FxNeg(a) == IF a[2] = 0 THEN <<-a[1], 0>> ELSE <<-a[1] - 1, FxBase - a[2]>>

FxSub(a, b) == FxAdd(a, FxNeg(b))

FxLess(a, b) == a[1] < b[1] \/ (a[1] = b[1] /\ a[2] < b[2])

FxAbs(a) == IF a[1] < 0 THEN FxNeg(a) ELSE a

\* a / n for a count n >= 1, rounded to the nearest unit
FxDivN(a, n) ==
    LET b == FxAdd(a, <<0, n \div 2>>)
        q == b[1] \div n
        r == b[1] % n
    IN  <<q, (r * FxBase + b[2]) \div n>>

FxOfUnits(u) == FxNorm(0, u)

RECURSIVE FxSum(_)
FxSum(s) == IF s = <<>> THEN FxZero ELSE FxAdd(Head(s), FxSum(Tail(s)))

RECURSIVE FxMaxAbs(_)
\* max |s[i]| of a non-empty sequence
FxMaxAbs(s) ==
    IF Len(s) = 1 THEN FxAbs(s[1])
    ELSE LET m == FxMaxAbs(Tail(s))
             h == FxAbs(Head(s))
         IN  IF FxLess(m, h) THEN h ELSE m

----------------------------------------------------------------------------
(* Exact sums of squares: naturals as 9 limbs of base 10^4, least first *)

Limb == 100 * 100

NLimbs == 9

BigZero == AsArray([i \in 1..NLimbs |-> 0])

\* propagate the carries of limb sums b upward; C[i] is the carry out of limb i
BigCarry(b) ==
    LET C[i \in 0..NLimbs] == IF i = 0 THEN 0 ELSE (b[i] + C[i - 1]) \div Limb
    IN  AsArray([i \in 1..NLimbs |-> (b[i] + C[i - 1]) % Limb])

BigAdd(a, b) == BigCarry(AsArray([i \in 1..NLimbs |-> a[i] + b[i]]))

RECURSIVE BigLessFrom(_, _, _)
BigLessFrom(a, b, i) ==
    IF i = 0 THEN FALSE
    ELSE IF a[i] # b[i] THEN a[i] < b[i]
    ELSE BigLessFrom(a, b, i - 1)

BigLess(a, b) == BigLessFrom(a, b, NLimbs)

BigLeq(a, b) == ~BigLess(b, a)

\* the four limbs of |a|, for |a| < 10^16 units
FxLimbs(a) ==
    LET m == FxAbs(a)
    IN  <<m[2] % Limb, m[2] \div Limb, m[1] % Limb, m[1] \div Limb>>

\* a * a, exactly
FxSquare(a) ==
    LET d == FxLimbs(a)
        col(k) == LET I == {i \in 1..4 : k + 1 - i \in 1..4}
                      RECURSIVE S(_)
                      S(J) == IF J = {} THEN 0
                              ELSE LET i == CHOOSE x \in J : TRUE
                                   IN  d[i] * d[k + 1 - i] + S(J \ {i})
                  IN  S(I)
    IN  BigCarry(AsArray([k \in 1..NLimbs |-> IF k <= 7 THEN col(k) ELSE 0]))

\* sum of s[r] * s[r], exactly: the squares are added limb by limb
SumSquares(s) ==
    LET sq == AsArray([r \in 1..Len(s) |-> FxSquare(s[r])])
        T[r \in 0..Len(s)] ==
            IF r = 0 THEN BigZero
            ELSE LET p == T[r - 1]
                 IN  AsArray([i \in 1..NLimbs |-> p[i] + sq[r][i]])
    IN  BigCarry(T[Len(s)])

----------------------------------------------------------------------------
(* Floats that may be non-finite *)

Fin(n, d) == [k |-> "fin", n |-> n, d |-> d]

NaN == [k |-> "nan", n |-> 0, d |-> 1]

PosInf == [k |-> "inf", n |-> 1, d |-> 1]

\* float64 division of a float by a count: x/0 is inf or nan, never an exception
FloatDiv(a, b) ==
    IF a.k = "nan" THEN NaN
    ELSE IF b = 0 THEN (IF a.n = 0 THEN NaN ELSE PosInf)
    ELSE Fin(a.n, a.d * b)

FloatEq(a, b) == a.k = "fin" /\ b.k = "fin" /\ a.n * b.d = b.n * a.d

\* ln of the counts that occur, in units of 1e-12
LnNat(n) ==
    CASE n = 50 -> <<39120, 23005428>>
      [] n = 100 -> <<46051, 70185988>>
      [] n = 500 -> <<62146, 8098422>>
      [] n = 1000 -> <<69077, 55278982>>

\* np.log: ln of a positive finite value, -inf at 0, inf at inf, nan at nan
NpLog(x) ==
    CASE x.k = "nan" -> [k |-> "nan", v |-> FxZero]
      [] x.k = "inf" -> [k |-> "inf", v |-> FxZero]
      [] x.k = "fin" /\ x.n = 0 -> [k |-> "ninf", v |-> FxZero]
      [] x.k = "fin" /\ x.n > 0 -> [k |-> "fin", v |-> FxSub(LnNat(x.n), LnNat(x.d))]

IsFinite(x) == x.k = "fin"

----------------------------------------------------------------------------
(* Sequences as tables *)

\* t[mask]: the rows of t whose entry in the boolean mask is true, in order
SelectRows(t, mask) ==
    LET F[i \in 0..Len(t)] ==
            IF i = 0 THEN <<>>
            ELSE IF mask[i] THEN Append(F[i - 1], t[i]) ELSE F[i - 1]
    IN  F[Len(t)]

Range(t) == {t[i] : i \in 1..Len(t)}

----------------------------------------------------------------------------
(* build_switching_regression_data *)

\* FilterSkillOccs that looks at the origin only
FilterSkillOccs_OriginOnly(sw, skill_occs) ==
    SelectRows(sw, AsArray([i \in 1..Len(sw) |-> sw[i].occ_origin \in skill_occs]))

\* lines 51-54: both ends of the pair have skill data
FilterSkillOccs(sw, skill_occs) ==
    SelectRows(sw, AsArray([i \in 1..Len(sw) |->
        sw[i].occ_origin \in skill_occs /\ sw[i].occ_dest \in skill_occs]))

\* line 55
FilterStayers(st, skill_occs) ==
    SelectRows(st, AsArray([i \in 1..Len(st) |-> st[i].occ \in skill_occs]))

RECURSIVE MergeStayers_OnDest(_, _)
\* MergeStayers joined on the destination instead of the origin
MergeStayers_OnDest(sw, st) ==
    IF sw = <<>> THEN <<>>
    ELSE LET l == Head(sw)
             m == SelectRows(st, AsArray([i \in 1..Len(st) |-> st[i].occ = l.occ_dest]))
         IN  AsArray([i \in 1..Len(m) |->
                 [occ_origin |-> l.occ_origin, occ_dest |-> l.occ_dest,
                  weighted_switches |-> l.weighted_switches,
                  occ |-> m[i].occ, weighted_stayers |-> m[i].weighted_stayers]])
             \o MergeStayers_OnDest(Tail(sw), st)

RECURSIVE MergeStayers(_, _)
\* lines 58-60: inner merge on occ_origin = occ, left order kept
MergeStayers(sw, st) ==
    IF sw = <<>> THEN <<>>
    ELSE LET l == Head(sw)
             m == SelectRows(st, AsArray([i \in 1..Len(st) |-> st[i].occ = l.occ_origin]))
         IN  AsArray([i \in 1..Len(m) |->
                 [occ_origin |-> l.occ_origin, occ_dest |-> l.occ_dest,
                  weighted_switches |-> l.weighted_switches,
                  occ |-> m[i].occ, weighted_stayers |-> m[i].weighted_stayers]])
             \o MergeStayers(Tail(sw), st)

SetMin(S) == CHOOSE x \in S : \A y \in S : x <= y

\* MinNonzero without its "> 0" mask
MinNonzero_NoMask(merged) ==
    IF merged = <<>> THEN NaN
    ELSE Fin(SetMin({r.weighted_switches : r \in Range(merged)}), 1)

\* MinNonzero taken over the non-self pairs only
MinNonzero_NoSelf(merged) ==
    LET pos == {r.weighted_switches :
                   r \in {x \in Range(merged) : /\ x.weighted_switches > 0
                                                /\ x.occ_origin # x.occ_dest}}
    IN  IF pos = {} THEN NaN ELSE Fin(SetMin(pos), 1)

\* lines 64-66: the smallest positive weighted_switches of the merged table, nan if none
MinNonzero(merged) ==
    LET pos == {r.weighted_switches : r \in {x \in Range(merged) : x.weighted_switches > 0}}
    IN  IF pos = {} THEN NaN ELSE Fin(SetMin(pos), 1)

\* lines 68-69: the share, with the floor where the share is exactly 0
SwitchShare(r, min_nonzero) ==
    LET raw == FloatDiv(Fin(r.weighted_switches, 1), r.weighted_stayers)
    IN  IF raw.k = "fin" /\ raw.n = 0
        THEN FloatDiv(min_nonzero, r.weighted_stayers)
        ELSE raw

\* lines 68-70
WithLogShare(merged) ==
    LET m == MinNonzero(merged)
    IN  AsArray([i \in 1..Len(merged) |->
            LET r == merged[i]
                sh == SwitchShare(r, m)
            IN  [occ_origin |-> r.occ_origin, occ_dest |-> r.occ_dest,
                 weighted_switches |-> r.weighted_switches,
                 occ |-> r.occ, weighted_stayers |-> r.weighted_stayers,
                 switch_share |-> sh, log_switch_share |-> NpLog(sh)]])

\* line 73
DropSelfPairs(t) ==
    SelectRows(t, AsArray([i \in 1..Len(t) |-> t[i].occ_origin # t[i].occ_dest]))

\* DropNonFinite as a dropna: infinities stay
DropNonFinite_NanOnly(t) ==
    SelectRows(t, AsArray([i \in 1..Len(t) |-> t[i].log_switch_share.k # "nan"]))

\* line 74
DropNonFinite(t) ==
    SelectRows(t, AsArray([i \in 1..Len(t) |-> IsFinite(t[i].log_switch_share)]))

\* lines 50-60
JoinedTable(sw, st, skill_occs) ==
    MergeStayers(FilterSkillOccs(sw, skill_occs), FilterStayers(st, skill_occs))

\* lines 50-74: the table the builder returns
BuildTable(sw, st, skill_occs) ==
    DropNonFinite(DropSelfPairs(WithLogShare(JoinedTable(sw, st, skill_occs))))

----------------------------------------------------------------------------
(* step1_ols_residualize *)

MaxIter == 50

\* 1e-10 in units of 1e-12
Tol == 100

\* groupby(keys).transform("mean"): each row's group mean
GroupMeans(vals, keys) ==
    AsArray([i \in 1..Len(vals) |->
        LET G == {j \in 1..Len(vals) : keys[j] = keys[i]}
            S[j \in 0..Len(vals)] ==
                IF j = 0 THEN FxZero
                ELSE IF j \in G THEN FxAdd(S[j - 1], vals[j]) ELSE S[j - 1]
        IN  FxDivN(S[Len(vals)], Cardinality(G))])

\* lines 106-109 and 111-114: subtract each row's group mean
Demean(vals, keys) ==
    LET m == GroupMeans(vals, keys)
    IN  AsArray([i \in 1..Len(vals) |-> FxSub(vals[i], m[i])])

Origins(t) == AsArray([i \in 1..Len(t) |-> t[i].occ_origin])

Dests(t) == AsArray([i \in 1..Len(t) |-> t[i].occ_dest])

\* OnePass without its destination step
OnePass_OriginOnly(res, t) == Demean(res, Origins(t))

\* OnePass with the destination means of the residuals the pass started from
OnePass_DestOfOld(res, t) ==
    LET m == GroupMeans(res, Dests(t))
        r == Demean(res, Origins(t))
    IN  AsArray([i \in 1..Len(res) |-> FxSub(r[i], m[i])])

\* lines 104-114: one pass, by origin and then by destination of the updated residuals
OnePass(res, t) == Demean(Demean(res, Origins(t)), Dests(t))

\* SmallChange with a tolerance of 1e-6
SmallChange_LooseTol(new, old) ==
    FxLess(FxMaxAbs(AsArray([i \in 1..Len(new) |-> FxSub(new[i], old[i])])),
           FxOfUnits(Tol * 10000))

\* line 117: np.max(np.abs(residuals - residuals_old)) < 1e-10
SmallChange(new, old) ==
    FxLess(FxMaxAbs(AsArray([i \in 1..Len(new) |-> FxSub(new[i], old[i])])), FxOfUnits(Tol))

\* line 93
LogShares(t) == AsArray([i \in 1..Len(t) |-> t[i].log_switch_share.v])

\* SsTotal about zero instead of about the mean
SsTotal_Uncentred(y) == SumSquares(y)

\* line 124: sum((y - y.mean()) ** 2)
SsTotal(y) ==
    LET m == FxDivN(FxSum(y), Len(y))
    IN  SumSquares(AsArray([i \in 1..Len(y) |-> FxSub(y[i], m)]))

\* line 125: sum(residuals ** 2)
SsResid(res) == SumSquares(res)

\* line 126: 1 - ss_resid / ss_total, a float: nan or -inf when ss_total is 0
RSquared(res, y) ==
    LET sst == SsTotal(y)
        ssr == SsResid(res)
    IN  [k |-> IF sst # BigZero THEN "fin" ELSE IF ssr = BigZero THEN "nan" ELSE "ninf",
         ssr |-> ssr, sst |-> sst]

\* WithResidual with the rows coming back in the opposite order
WithResidual_Reversed(t, res) ==
    [i \in 1..Len(t) |->
        [occ_origin |-> t[Len(t) + 1 - i].occ_origin, occ_dest |-> t[Len(t) + 1 - i].occ_dest,
         weighted_switches |-> t[Len(t) + 1 - i].weighted_switches,
         occ |-> t[Len(t) + 1 - i].occ, weighted_stayers |-> t[Len(t) + 1 - i].weighted_stayers,
         switch_share |-> t[Len(t) + 1 - i].switch_share,
         log_switch_share |-> t[Len(t) + 1 - i].log_switch_share,
         residual |-> res[Len(t) + 1 - i]]]

\* lines 120-121: a copy of the table with the residual column
WithResidual(t, res) ==
    [i \in 1..Len(t) |->
        [occ_origin |-> t[i].occ_origin, occ_dest |-> t[i].occ_dest,
         weighted_switches |-> t[i].weighted_switches,
         occ |-> t[i].occ, weighted_stayers |-> t[i].weighted_stayers,
         switch_share |-> t[i].switch_share,
         log_switch_share |-> t[i].log_switch_share,
         residual |-> res[i]]]

----------------------------------------------------------------------------
(* step2_random_forest *)

CvFolds == 5

MinSamplesLeaf == 10

\* the value that stands for a NaN cell of the skill matrix (skills are 0..100)
SkillNaN == 1000

\* line 154: a difference with a NaN operand is NaN
SkillSub(a, b) == IF a = SkillNaN \/ b = SkillNaN THEN SkillNaN ELSE a - b

\* FeatureRow with the difference taken destination minus origin
FeatureRow_DestMinusOrigin(r, skills) ==
    LET o == skills[r.occ_origin]
        d == skills[r.occ_dest]
    IN  o \o d \o AsArray([c \in 1..Len(o) |-> SkillSub(d[c], o[c])])

\* lines 152-156: origin skills, destination skills, their difference
FeatureRow(r, skills) ==
    LET o == skills[r.occ_origin]
        d == skills[r.occ_dest]
    IN  o \o d \o AsArray([c \in 1..Len(o) |-> SkillSub(o[c], d[c])])

\* no cell of X is NaN
FiniteFeatures(X) == \A i \in 1..Len(X) : \A c \in 1..Len(X[i]) : X[i][c] # SkillNaN

FeatureMatrix(t, skills) == [i \in 1..Len(t) |-> FeatureRow(t[i], skills)]

\* line 157
Targets(t) == AsArray([i \in 1..Len(t) |-> t[i].residual])

\* lines 159-163, for skill columns 1..ncols
FeatureNames(ncols) ==
    [c \in 1..ncols |-> <<"origin", c>>] \o [c \in 1..ncols |-> <<"dest", c>>]
    \o [c \in 1..ncols |-> <<"diff", c>>]

\* lines 169-176: the estimator as constructed, not fitted
NewForest ==
    [n_estimators |-> 200, max_depth |-> 20, min_samples_leaf |-> MinSamplesLeaf,
     max_features |-> "sqrt", n_jobs |-> -1, random_state |-> 42,
     fitted |-> FALSE, train_X |-> <<>>, train_y |-> <<>>, predictions |-> <<>>,
     feature_importances |-> <<>>]

\* KFold(5), no shuffle: the test rows of fold f among n rows
FoldTest(n, f) ==
    LET base == n \div CvFolds
        extra == n % CvFolds
        size(g) == IF g <= extra THEN base + 1 ELSE base
        S[g \in 0..CvFolds] == IF g = 0 THEN 0 ELSE S[g - 1] + size(g)
    IN  (S[f - 1] + 1)..S[f]

\* line 180: each fold fits a clone of the estimator on the other rows
CrossValScore(est, X, y) ==
    [f \in 1..CvFolds |->
        [clone_params |-> [est EXCEPT !.fitted = TRUE],
         test |-> FoldTest(Len(X), f),
         train |-> (1..Len(X)) \ FoldTest(Len(X), f)]]

\* EstimatorAfterCV with one random stream shared by the folds and the caller
EstimatorAfterCV_SharedRng(est, X, y) ==
    [est EXCEPT !.random_state = est.random_state + CvFolds]

\* line 180: the estimator object the caller still holds after cross_val_score:
\* the folds were fitted on clones, the object passed in is as it was
EstimatorAfterCV(est, X, y) == est

FxMin(s) == CHOOSE x \in Range(s) : \A z \in Range(s) : ~FxLess(z, x)

FxMax(s) == CHOOSE x \in Range(s) : \A z \in Range(s) : ~FxLess(x, z)

\* What the fitted forest predicts for its training rows. With fewer than
\* 2 * min_samples_leaf rows no node can be split, so every tree is one leaf
\* holding the mean of its bootstrap sample and every row gets the same value,
\* somewhere between the smallest and the largest target.
ForestPredictions(y) ==
    IF Len(y) < 2 * MinSamplesLeaf
    THEN {[i \in 1..Len(y) |-> c] : c \in {FxMin(y), FxDivN(FxSum(y), Len(y)), FxMax(y)}}
    ELSE [1..Len(y) -> {FxMin(y), FxMax(y)}]

\* line 186: fit on the full data, from the constructor's parameters
Fit(est, X, y, pred) ==
    [est EXCEPT !.fitted = TRUE, !.train_X = X, !.train_y = y,
                !.predictions = pred,
                !.feature_importances = [j \in 1..Len(X[1]) |-> 0]]

\* lines 189-190
WithPrediction(t, pred) ==
    [i \in 1..Len(t) |->
        [occ_origin |-> t[i].occ_origin, occ_dest |-> t[i].occ_dest,
         weighted_switches |-> t[i].weighted_switches,
         occ |-> t[i].occ, weighted_stayers |-> t[i].weighted_stayers,
         switch_share |-> t[i].switch_share,
         log_switch_share |-> t[i].log_switch_share,
         residual |-> t[i].residual,
         predicted_skill_portability |-> pred[i]]]

\* line 197: pd.Series(rf.feature_importances_, index=feature_names)
ImportanceSeries(est, names) ==
    [j \in 1..Len(names) |-> [feature |-> names[j], importance |-> est.feature_importances[j]]]

----------------------------------------------------------------------------
(* compute_aggregate_portability *)

\* a * n for a count n, exactly
FxMulN(a, n) ==
    LET t0 == (a[2] % Limb) * n
        t1 == (a[2] \div Limb) * n + (t0 \div Limb)
    IN  <<a[1] * n + (t1 \div Limb), (t1 % Limb) * Limb + (t0 % Limb)>>

\* A quotient num / (den * cnt) of fixed-point values, or nan
Quot(num, den, cnt) ==
    IF den = FxZero \/ cnt = 0
    THEN [k |-> "nan", num |-> FxZero, den |-> FxZero, cnt |-> 0]
    ELSE [k |-> "fin", num |-> num, den |-> den, cnt |-> cnt]

\* line 215: dict(zip(occ, emp_pre)), a later row of the same occ wins
EmpMap(emp) ==
    [o \in {emp[i].occ : i \in 1..Len(emp)} |->
        emp[CHOOSE i \in 1..Len(emp) :
                /\ emp[i].occ = o
                /\ \A j \in 1..Len(emp) : emp[j].occ = o => j <= i].emp_pre]

\* a destination without a record weighing 1
EmpOf_DefaultOne(emp_map, d) == IF d \in DOMAIN emp_map THEN emp_map[d] ELSE 1

\* line 231: emp_map.get(occ_d, 0)
EmpOf(emp_map, d) == IF d \in DOMAIN emp_map THEN emp_map[d] ELSE 0

Predictions(t) == AsArray([i \in 1..Len(t) |-> t[i].predicted_skill_portability])

\* lines 218-222: global min-max; 0/0 is nan when every prediction is the same
PortTable(t) ==
    LET p == Predictions(t)
    IN  [i \in 1..Len(t) |->
            [occ_origin |-> t[i].occ_origin, occ_dest |-> t[i].occ_dest,
             predicted_skill_portability |-> p[i],
             portability_norm |->
                 Quot(FxSub(p[i], FxMin(p)), FxSub(FxMax(p), FxMin(p)), 1)]]

\* the sorted distinct origins, the order groupby visits them in
RECURSIVE SortedSeq(_)
SortedSeq(S) ==
    IF S = {} THEN <<>>
    ELSE LET m == SetMin(S) IN <<m>> \o SortedSeq(S \ {m})

OriginKeys(pt) == SortedSeq({pt[i].occ_origin : i \in 1..Len(pt)})

GroupOf(pt, o) == SelectRows(pt, AsArray([i \in 1..Len(pt) |-> pt[i].occ_origin = o]))

\* lines 227-233: total_weight of an origin's group
TotalWeight(g, emp_map) ==
    LET S[i \in 0..Len(g)] ==
            IF i = 0 THEN 0 ELSE S[i - 1] + EmpOf(emp_map, g[i].occ_dest)
    IN  S[Len(g)]

\* lines 227-236: weighted_port / total_weight
WeightedPort(g, emp_map) ==
    LET S[i \in 0..Len(g)] ==
            IF i = 0 THEN FxZero
            ELSE FxAdd(S[i - 1],
                       FxMulN(g[i].portability_norm.num, EmpOf(emp_map, g[i].occ_dest)))
    IN  IF g[1].portability_norm.k = "nan"
        THEN Quot(FxZero, FxZero, 0)
        ELSE Quot(S[Len(g)], g[1].portability_norm.den, TotalWeight(g, emp_map))

\* line 244: the group's mean of portability_norm, nan when every value is nan
MeanPort(g) ==
    LET S[i \in 0..Len(g)] ==
            IF i = 0 THEN FxZero ELSE FxAdd(S[i - 1], g[i].portability_norm.num)
    IN  IF g[1].portability_norm.k = "nan"
        THEN Quot(FxZero, FxZero, 0)
        ELSE Quot(S[Len(g)], g[1].portability_norm.den, Len(g))

\* a < b for two quotients over the same den; nan is below every number
QuotLess(a, b) ==
    IF b.k = "nan" THEN FALSE
    ELSE IF a.k = "nan" THEN TRUE
    ELSE FxLess(FxMulN(a.num, b.cnt), FxMulN(b.num, a.cnt))

\* sort_values(ascending=False): descending, ties in their first order, nan last
SortDescending(t, keys) ==
    LET Ins(srt, x) ==
            LET before == {i \in 1..Len(srt) : ~QuotLess(keys[srt[i]], keys[x])}
                n == Cardinality(before)
            IN  AsArray([i \in 1..(Len(srt) + 1) |->
                    IF i <= n THEN srt[i] ELSE IF i = n + 1 THEN x ELSE srt[i - 1]])
        F[i \in 0..Len(t)] == IF i = 0 THEN <<>> ELSE Ins(F[i - 1], i)
        order == F[Len(t)]
    IN  AsArray([i \in 1..Len(t) |-> t[order[i]]])

\* lines 225-255: one row per origin whose total weight is positive, with the
\* unweighted mean and the title merged on, sorted by aggregate_portability
AggTable(pt, emp_map) ==
    LET origins == OriginKeys(pt)
        keys == SelectRows(origins, AsArray([i \in 1..Len(origins) |->
                    TotalWeight(GroupOf(pt, origins[i]), emp_map) > 0]))
        rows == [i \in 1..Len(keys) |->
                    [occ2010 |-> keys[i],
                     aggregate_portability |-> WeightedPort(GroupOf(pt, keys[i]), emp_map),
                     mean_pairwise_portability |-> MeanPort(GroupOf(pt, keys[i])),
                     title |-> <<"title", keys[i]>>]]
    IN  SortDescending(rows, AsArray([i \in 1..Len(rows) |-> rows[i].aggregate_portability]))

----------------------------------------------------------------------------
(* main: the output files *)

\* lines 290-293
PairwiseOut(t) ==
    [i \in 1..Len(t) |->
        [occ_origin |-> t[i].occ_origin, occ_dest |-> t[i].occ_dest,
         log_switch_share |-> t[i].log_switch_share,
         residual |-> t[i].residual,
         predicted_skill_portability |-> t[i].predicted_skill_portability]]

\* the importances in ascending order
SortImportances_Ascending(imp) ==
    SortDescending(imp, AsArray([i \in 1..Len(imp) |->
        Quot(FxOfUnits(0 - imp[i].importance), FxOfUnits(1), 1)]))

\* line 300: importances.sort_values(ascending=False)
SortImportances(imp) ==
    SortDescending(imp, AsArray([i \in 1..Len(imp) |->
        Quot(FxOfUnits(imp[i].importance), FxOfUnits(1), 1)]))

----------------------------------------------------------------------------
(* The input files the runs are checked on *)

\* occupation codes
Occ == {1, 2, 3, 4}

\* the occupations the small input family's pairs are drawn from
SmallOcc == {1, 2, 3}

\* weighted_switches values
Weights == {0, 50, 100}

\* rows of the switching matrix in the small input family
MaxPairs == 2

\* rows of the switching matrix in the pipeline input family
MaxRows == 7

\* skill dimensions
NDims == 2

StayersOf(o) == IF o % 2 = 1 THEN 1000 ELSE 500

\* skill values in hundredths, in [0, 1]
SkillVec(o) == [c \in 1..NDims |-> (o * (30 + 7 * c)) % 101]

\* the switching matrix of a set of pairs, sorted by (occ_origin, occ_dest)
\* as the upstream groupby writes it
RECURSIVE SwitchRows(_, _)
SwitchRows(P, w) ==
    IF P = {} THEN <<>>
    ELSE LET m == CHOOSE x \in P :
                     \A z \in P : x[1] < z[1] \/ (x[1] = z[1] /\ x[2] <= z[2])
         IN  <<[occ_origin |-> m[1], occ_dest |-> m[2], weighted_switches |-> w[m]]>>
             \o SwitchRows(P \ {m}, w)

\* An occupation may be odd in one way: no skill profile, no stayer row, or
\* zero stayers; odd = 0 means none is
Oddities == {[odd |-> 0, kind |-> "none"]}
            \cup [odd : SmallOcc, kind : {"noskill", "nostay", "zerostay"}]

StayerRows(q) ==
    LET occs == SortedSeq(Occ \ (IF q.kind = "nostay" THEN {q.odd} ELSE {}))
    IN  [i \in 1..Len(occs) |->
            [occ |-> occs[i],
             weighted_stayers |->
                 IF q.kind = "zerostay" /\ occs[i] = q.odd THEN 0 ELSE StayersOf(occs[i])]]

SkillTable(q) ==
    [o \in Occ \ (IF q.kind = "noskill" THEN {q.odd} ELSE {}) |-> SkillVec(o)]

\* a skill table with a NaN cell for occupation 3
NanSkillTable ==
    [o \in Occ |-> IF o = 3 THEN [SkillVec(o) EXCEPT ![1] = SkillNaN] ELSE SkillVec(o)]

\* a skill table that shares no occupation with the switching matrix
DisjointSkillTable == [o \in {5, 6} |-> SkillVec(o)]

\* every matrix of at most MaxPairs distinct pairs, with its weights
SmallMatrices ==
    UNION {{SwitchRows(P, w) : w \in [P -> Weights]} :
              P \in {Q \in SUBSET (SmallOcc \X SmallOcc) : Cardinality(Q) <= MaxPairs}}

SmallInputs ==
    {[sw |-> m, st |-> StayerRows(q), sk |-> SkillTable(q)] :
        m \in SmallMatrices, q \in Oddities}

\* pairs that chain origins and destinations into one long path, then others
CandPairs ==
    << <<1, 2>>, <<3, 2>>, <<3, 4>>, <<2, 4>>, <<2, 1>>, <<4, 1>>, <<4, 3>>,
       <<1, 3>>, <<1, 1>> >>

\* two origins and two destinations, every origin paired with every destination
BalancedPairs == {<<1, 2>>, <<1, 4>>, <<3, 2>>, <<3, 4>>}

BalancedInputs ==
    {[sw |-> SwitchRows(BalancedPairs, w),
      st |-> StayerRows([odd |-> 0, kind |-> "none"]),
      sk |-> SkillTable([odd |-> 0, kind |-> "none"])] :
        w \in [BalancedPairs -> {50, 100}]}

PathInputs ==
    UNION {
        {[sw |-> SwitchRows({CandPairs[i] : i \in 1..n},
                            [x \in {CandPairs[i] : i \in 1..n} |->
                                w[CHOOSE i \in 1..n : CandPairs[i] = x]]),
          st |-> StayerRows([odd |-> 0, kind |-> "none"]),
          sk |-> sk] :
            w \in [1..n -> {50, 100}],
            sk \in {SkillTable([odd |-> 0, kind |-> "none"]), DisjointSkillTable}} :
        n \in 0..MaxRows}

\* the five-pair path with a NaN skill cell
NanSkillInputs ==
    {[sw |-> SwitchRows({CandPairs[i] : i \in 1..CvFolds},
                        [x \in {CandPairs[i] : i \in 1..CvFolds} |-> 100]),
      st |-> StayerRows([odd |-> 0, kind |-> "none"]),
      sk |-> NanSkillTable]}

PipelineInputs == PathInputs \cup BalancedInputs \cup NanSkillInputs

EmpRows(S) ==
    LET occs == SortedSeq(S)
    IN  [i \in 1..Len(occs) |-> [occ |-> occs[i], emp_pre |-> IF occs[i] = 2 THEN 5 ELSE 1]]

EmpChoices == {EmpRows(Occ), EmpRows({2, 3}), EmpRows({})}

----------------------------------------------------------------------------
(* main *)

\* before step1 returns there is no R^2, before step2 no estimator, before
\* the save no output file
NoRSquared == [k |-> "none", ssr |-> BigZero, sst |-> BigZero]

NoForest ==
    [n_estimators |-> 0, max_depth |-> 0, min_samples_leaf |-> 0,
     max_features |-> "none", n_jobs |-> 0, random_state |-> 0,
     fitted |-> FALSE, train_X |-> <<>>, train_y |-> <<>>, predictions |-> <<>>,
     feature_importances |-> <<>>]

NothingWritten ==
    [pairwise_skill_portability |-> <<>>, aggregate_skill_portability |-> <<>>,
     rf_feature_importances |-> <<>>]

Init ==
    /\ switchFile = <<>> /\ stayerFile = <<>> /\ skillFile = <<>> /\ empFile = <<>>
    /\ pc = "start" /\ err = "none" /\ stdout = <<>>
    /\ switches = <<>> /\ residuals = <<>> /\ iter = 0 /\ converged = FALSE
    /\ switches_fe = <<>> /\ r2_fe = NoRSquared /\ rf = NoForest /\ cv_scores = <<>>
    /\ switches_rf = <<>> /\ importances = <<>> /\ agg_df = <<>> /\ port = <<>>
    /\ written = NothingWritten

Raise(e) == pc' = "error" /\ err' = e

\* line 275: build_switching_regression_data reads its three files and returns
Build(Inputs) ==
    /\ pc = "start"
    /\ \E inp \in Inputs :
        /\ switchFile' = inp.sw
        /\ stayerFile' = inp.st
        /\ skillFile' = inp.sk
        /\ switches' = BuildTable(inp.sw, inp.st, DOMAIN inp.sk)
    /\ stdout' = stdout \o <<"Building switching regression data", "Directional pairs",
                             "Unique origins", "Unique destinations",
                             "Log switch share range">>
    /\ pc' = "step1"
    /\ UNCHANGED <<empFile, err, residuals, iter, converged, switches_fe, r2_fe, rf,
                   cv_scores, switches_rf, importances, agg_df, port, written>>

\* lines 91-102: y and the first residuals
Step1Begin ==
    /\ pc = "step1"
    /\ residuals' = LogShares(switches)
    /\ iter' = 0
    /\ converged' = FALSE
    /\ stdout' = Append(stdout, "Step 1: OLS residualization")
    /\ pc' = "step1_loop"
    /\ UNCHANGED <<switchFile, stayerFile, skillFile, empFile, err, switches,
                   switches_fe, r2_fe, rf, cv_scores, switches_rf, importances,
                   agg_df, port, written>>

\* lines 103-118: one pass of the loop; np.max of an empty array raises
Step1Pass ==
    /\ pc = "step1_loop"
    /\ iter < MaxIter
    /\ ~converged
    /\ IF Len(switches) = 0
       THEN /\ Raise("ValueError")
            /\ UNCHANGED <<residuals, iter, converged>>
       ELSE /\ residuals' = OnePass(residuals, switches)
            /\ iter' = iter + 1
            /\ converged' = SmallChange(residuals', residuals)
            /\ UNCHANGED <<pc, err>>
    /\ UNCHANGED <<switchFile, stayerFile, skillFile, empFile, stdout, switches,
                   switches_fe, r2_fe, rf, cv_scores, switches_rf, importances,
                   agg_df, port, written>>

\* Step1Return that adds the residual column to the table it was given
Step1Return_InPlace ==
    /\ pc = "step1_loop"
    /\ converged \/ iter = MaxIter
    /\ switches' = WithResidual(switches, residuals)
    /\ switches_fe' = switches'
    /\ r2_fe' = RSquared(residuals, LogShares(switches))
    /\ stdout' = stdout \o <<"FE model R2", "Residual std">>
    /\ pc' = "step2"
    /\ UNCHANGED <<switchFile, stayerFile, skillFile, empFile, err,
                   residuals, iter, converged, rf, cv_scores, switches_rf,
                   importances, agg_df, port, written>>

\* lines 120-131: after the loop
Step1Return ==
    /\ pc = "step1_loop"
    /\ converged \/ iter = MaxIter
    /\ switches_fe' = WithResidual(switches, residuals)
    /\ r2_fe' = RSquared(residuals, LogShares(switches))
    /\ stdout' = stdout \o <<"FE model R2", "Residual std">>
    /\ pc' = "step2"
    /\ UNCHANGED <<switchFile, stayerFile, skillFile, empFile, err, switches,
                   residuals, iter, converged, rf, cv_scores, switches_rf,
                   importances, agg_df, port, written>>

\* lines 141-176: features, targets, the estimator
Step2Begin ==
    /\ pc = "step2"
    /\ rf' = NewForest
    /\ stdout' = stdout \o <<"Step 2: Random Forest", "Feature matrix", "Target (residuals)">>
    /\ pc' = "step2_cv"
    /\ UNCHANGED <<switchFile, stayerFile, skillFile, empFile, err, switches,
                   residuals, iter, converged, switches_fe, r2_fe, cv_scores,
                   switches_rf, importances, agg_df, port, written>>

\* lines 179-182: KFold refuses more splits than rows. A NaN feature is
\* the library's business: a forest that takes missing values fits on it, one
\* that does not raises ValueError.
Step2CrossVal ==
    /\ pc = "step2_cv"
    /\ LET X == FeatureMatrix(switches_fe, skillFile)
           y == Targets(switches_fe)
       IN  \E takesNaN \in (IF FiniteFeatures(X) THEN {TRUE} ELSE BOOLEAN) :
               IF Len(switches_fe) < CvFolds \/ (~FiniteFeatures(X) /\ ~takesNaN)
               THEN /\ Raise("ValueError")
                    /\ UNCHANGED <<cv_scores, stdout, rf>>
               ELSE /\ cv_scores' = CrossValScore(rf, X, y)
                    /\ rf' = EstimatorAfterCV(rf, X, y)
                    /\ stdout' = stdout \o <<"Running 5-fold cross-validation",
                                             "CV R2 scores", "Mean CV R2">>
                    /\ pc' = "step2_fit"
                    /\ UNCHANGED err
    /\ UNCHANGED <<switchFile, stayerFile, skillFile, empFile, switches, residuals,
                   iter, converged, switches_fe, r2_fe, switches_rf,
                   importances, agg_df, port, written>>

\* lines 185-202: the deployed fit, its in-sample predictions, the importances
Step2Fit ==
    /\ pc = "step2_fit"
    /\ \E pred \in ForestPredictions(Targets(switches_fe)) :
        /\ rf' = Fit(rf, FeatureMatrix(switches_fe, skillFile), Targets(switches_fe), pred)
        /\ switches_rf' = WithPrediction(switches_fe, pred)
    /\ importances' = ImportanceSeries(rf', FeatureNames(NDims))
    /\ stdout' = stdout \o <<"Fitting full model", "Training R2", "Top 20 most important features">>
    /\ pc' = "aggregate"
    /\ UNCHANGED <<switchFile, stayerFile, skillFile, empFile, err, switches,
                   residuals, iter, converged, switches_fe, r2_fe, cv_scores,
                   agg_df, port, written>>

\* feature importances, in units
ImpVals == {0, 1, 2}

\* rows of a table of predictions handed to the aggregator alone
MaxAggRows == 3

\* predicted_skill_portability values: -0.5, 0, 0.25
PredVals == {<<-5000, 0>>, <<0, 0>>, <<2500, 0>>}

\* pairs of two origins with every other occupation
AggPairs == {x \in {1, 2} \X Occ : x[1] # x[2]}

\* every table of 1..MaxAggRows distinct pairs in (occ_origin, occ_dest) order,
\* each with a prediction
AggTables ==
    UNION {{[i \in 1..Len(SwitchRows(P, [x \in P |-> 0])) |->
                [occ_origin |-> SwitchRows(P, [x \in P |-> 0])[i].occ_origin,
                 occ_dest |-> SwitchRows(P, [x \in P |-> 0])[i].occ_dest,
                 predicted_skill_portability |-> v[i]]] :
              v \in [1..Cardinality(P) -> PredVals]} :
          P \in {Q \in SUBSET AggPairs : Cardinality(Q) \in 1..MaxAggRows}}

\* line 284: compute_aggregate_portability reads the employment file and returns
Aggregate ==
    /\ pc = "aggregate"
    /\ \E emp \in EmpChoices :
        /\ empFile' = emp
        /\ port' = PortTable(switches_rf)
        /\ agg_df' = AggTable(port', EmpMap(emp))
    /\ stdout' = stdout \o <<"Computing aggregate skill portability",
                             "Occupations with portability scores",
                             "Top 10 most portable", "Bottom 10 least portable">>
    /\ pc' = "save"
    /\ UNCHANGED <<switchFile, stayerFile, skillFile, err, switches, residuals, iter,
                   converged, switches_fe, r2_fe, rf, cv_scores, switches_rf,
                   importances, written>>

\* Save that may also run as soon as step 2 has returned
Save_BeforeAggregate ==
    /\ pc \in {"aggregate", "save"}
    /\ written' = [pairwise_skill_portability |-> PairwiseOut(switches_rf),
                   aggregate_skill_portability |-> agg_df,
                   rf_feature_importances |-> SortImportances(importances)]
    /\ stdout' = stdout \o <<"Saving outputs", "Done", "Pairwise portability",
                             "Aggregate portability", "FE R2">>
    /\ pc' = "done"
    /\ UNCHANGED <<switchFile, stayerFile, skillFile, empFile, err, switches,
                   residuals, iter, converged, switches_fe, r2_fe, rf, cv_scores,
                   switches_rf, importances, agg_df, port>>

\* lines 286-307
Save ==
    /\ pc = "save"
    /\ written' = [pairwise_skill_portability |-> PairwiseOut(switches_rf),
                   aggregate_skill_portability |-> agg_df,
                   rf_feature_importances |-> SortImportances(importances)]
    /\ stdout' = stdout \o <<"Saving outputs", "Done", "Pairwise portability",
                             "Aggregate portability", "FE R2">>
    /\ pc' = "done"
    /\ UNCHANGED <<switchFile, stayerFile, skillFile, empFile, err, switches,
                   residuals, iter, converged, switches_fe, r2_fe, rf, cv_scores,
                   switches_rf, importances, agg_df, port>>

\* compute_aggregate_portability called on a table of step 2's shape
AggregateSmall ==
    /\ pc = "start"
    /\ \E t \in AggTables, emp \in EmpChoices :
        /\ switches_rf' = t
        /\ empFile' = emp
        /\ port' = PortTable(t)
        /\ agg_df' = AggTable(port', EmpMap(emp))
    /\ stdout' = stdout \o <<"Computing aggregate skill portability",
                             "Occupations with portability scores",
                             "Top 10 most portable", "Bottom 10 least portable">>
    /\ pc' = "save"
    /\ UNCHANGED <<switchFile, stayerFile, skillFile, err, switches, residuals, iter,
                   converged, switches_fe, r2_fe, rf, cv_scores, importances, written>>

\* lines 197 and 299-302 on the importances of a forest that did split
SaveSmall ==
    /\ pc = "start"
    /\ \E imp \in [1..(3 * NDims) -> ImpVals] :
        /\ rf' = [NewForest EXCEPT !.fitted = TRUE, !.feature_importances = AsArray(imp)]
        /\ importances' = ImportanceSeries(rf', FeatureNames(NDims))
    /\ written' = [pairwise_skill_portability |-> PairwiseOut(switches_rf),
                   aggregate_skill_portability |-> agg_df,
                   rf_feature_importances |-> SortImportances(importances')]
    /\ stdout' = stdout \o <<"Top 20 most important features", "Saving outputs", "Done">>
    /\ pc' = "done"
    /\ UNCHANGED <<switchFile, stayerFile, skillFile, empFile, err, switches,
                   residuals, iter, converged, switches_fe, r2_fe, cv_scores,
                   switches_rf, agg_df, port>>

BuildPipeline == Build(PipelineInputs)

BuildSmall == Build(SmallInputs)

Next ==
    \/ BuildPipeline
    \/ Step1Begin
    \/ Step1Pass
    \/ Step1Return
    \/ Step2Begin
    \/ Step2CrossVal
    \/ Step2Fit
    \/ Aggregate
    \/ Save

Spec == Init /\ [][Next]_vars

\* the builder alone, on the small input family
SpecBuild == Init /\ [][BuildSmall]_vars

\* the ranking of the importances alone
SpecSave == Init /\ [][SaveSmall]_vars

\* the aggregator alone, on small tables of predictions
SpecAgg == Init /\ [][AggregateSmall]_vars

----------------------------------------------------------------------------
(* What the claims speak of, stated on the input files *)

Built == pc # "start"

\* the stayer rows of an occupation
StayerRowsOf(o) == {r \in Range(stayerFile) : r.occ = o}

\* the input pairs whose two ends have a skill profile and whose origin has a
\* stayer row, each with its origin's stayer count
Eligible ==
    {[occ_origin |-> r.occ_origin, occ_dest |-> r.occ_dest,
      weighted_switches |-> r.weighted_switches,
      weighted_stayers |-> s.weighted_stayers] :
        <<r, s>> \in {<<r, s>> \in Range(switchFile) \X Range(stayerFile) :
                         /\ r.occ_origin \in DOMAIN skillFile
                         /\ r.occ_dest \in DOMAIN skillFile
                         /\ s.occ = r.occ_origin}}

EligiblePositive == {e.weighted_switches : e \in {x \in Eligible : x.weighted_switches > 0}}

AllPositive ==
    {r.weighted_switches : r \in {x \in Range(switchFile) : x.weighted_switches > 0}}

\* the zero-switch pairs the floor is for
ZeroPairs ==
    {e \in Eligible : /\ e.weighted_switches = 0
                      /\ e.weighted_stayers > 0
                      /\ e.occ_origin # e.occ_dest}

\* the returned rows of a pair
RowsOf(e) ==
    {r \in Range(switches) : r.occ_origin = e.occ_origin /\ r.occ_dest = e.occ_dest}

\* the log of an eligible pair is finite
FiniteLog(e) ==
    /\ e.weighted_stayers > 0
    /\ e.weighted_switches > 0 \/ EligiblePositive # {}

----------------------------------------------------------------------------
(* C1 *)

\* C1 as stated: every zero-switch pair with positive origin stayers is returned
\* with switch_share = m / its origin's stayers, m the smallest positive
\* weighted_switches of all pairs, and so with a finite log.
C1_AsStated ==
    Built => \A e \in ZeroPairs :
        \E r \in RowsOf(e) :
            /\ AllPositive # {}
            /\ FloatEq(r.switch_share, Fin(SetMin(AllPositive), e.weighted_stayers))
            /\ IsFinite(r.log_switch_share)

\* C1 amended: m is the smallest positive weighted_switches of the pairs that
\* pass the skill filter and the stayer join; when there is one, every
\* zero-switch pair with positive origin stayers is returned with switch_share
\* = m / its origin's stayers and a finite log; when there is none its share is
\* nan and the pair is not returned.
C1_FloorIsMinOfJoined ==
    Built => \A e \in ZeroPairs :
        IF EligiblePositive # {}
        THEN /\ RowsOf(e) # {}
             /\ \A r \in RowsOf(e) :
                 /\ FloatEq(r.switch_share,
                            Fin(SetMin(EligiblePositive), e.weighted_stayers))
                 /\ IsFinite(r.log_switch_share)
        ELSE RowsOf(e) = {}

\* a zero-switch pair was floored with the minimum of another pair
C1_Witness ==
    /\ Built
    /\ \E e \in ZeroPairs : \E r \in RowsOf(e) :
        /\ r.weighted_switches = 0
        /\ r.switch_share.n > 0
        /\ IsFinite(r.log_switch_share)

----------------------------------------------------------------------------
(* C3 *)

\* C3: every returned row is a non-self pair with a finite log, and the
\* returned rows are exactly the joined pairs that are non-self and finite:
\* the filter removes nothing else.
C3_OnlySelfAndNonFiniteDropped ==
    Built =>
        /\ \A r \in Range(switches) :
            r.occ_origin # r.occ_dest /\ IsFinite(r.log_switch_share)
        /\ \A e \in Eligible :
            (e.occ_origin # e.occ_dest /\ FiniteLog(e)) <=> RowsOf(e) # {}
        /\ Len(switches) =
            Cardinality({e \in Eligible : e.occ_origin # e.occ_dest /\ FiniteLog(e)})

\* a pair whose origin has no stayers (its log is +inf) was dropped while
\* another pair was kept
C3_Witness ==
    /\ Built
    /\ Len(switches) > 0
    /\ \E e \in Eligible :
        /\ e.occ_origin # e.occ_dest
        /\ e.weighted_stayers = 0
        /\ e.weighted_switches > 0
        /\ RowsOf(e) = {}

----------------------------------------------------------------------------
(* C4 *)

\* C4: every returned pair is a pair of the switching matrix whose origin and
\* destination have a skill profile and whose origin has a stayer row.
C4_ReturnedPairsAreJoined ==
    Built => \A r \in Range(switches) :
        /\ r.occ_origin \in DOMAIN skillFile
        /\ r.occ_dest \in DOMAIN skillFile
        /\ StayerRowsOf(r.occ_origin) # {}
        /\ \E x \in Range(switchFile) :
            /\ x.occ_origin = r.occ_origin
            /\ x.occ_dest = r.occ_dest
            /\ x.weighted_switches = r.weighted_switches

\* a pair without skill data at its destination was left out, another is returned
C4_Witness ==
    /\ Built
    /\ Len(switches) > 0
    /\ \E x \in Range(switchFile) :
        /\ x.occ_origin \in DOMAIN skillFile
        /\ x.occ_dest \notin DOMAIN skillFile
        /\ x.weighted_switches > 0
        /\ \E s \in StayerRowsOf(x.occ_origin) : s.weighted_stayers > 0

----------------------------------------------------------------------------
(* C5 *)

----------------------------------------------------------------------------
(* C2 *)

\* C2 as stated: when no pair row survives the builder, the run ends with a
\* DataError raised by the builder and neither the residualizer nor the
\* learner is executed.
C2_AsStated ==
    (Built /\ Len(switches) = 0) =>
        /\ pc = "error"
        /\ err = "DataError"
        /\ \A i \in 1..Len(stdout) :
            stdout[i] \notin {"Step 1: OLS residualization", "Step 2: Random Forest"}

----------------------------------------------------------------------------
(* C6 and C7: the residuals step1_ols_residualize returns *)

Step1Returned == r2_fe.k # "none"

\* 1e-6 in units of 1e-12
MeanTol == 10000 * Tol

\* |mean of the returned residuals over the rows whose key is g| < 1e-6
SmallGroupMean(keys, g) ==
    LET G == {i \in 1..Len(switches_fe) : keys[i] = g}
        S[i \in 0..Len(switches_fe)] ==
            IF i = 0 THEN FxZero
            ELSE IF i \in G THEN FxAdd(S[i - 1], switches_fe[i].residual) ELSE S[i - 1]
    IN  FxLess(FxAbs(S[Len(switches_fe)]), FxOfUnits(MeanTol * Cardinality(G)))

SmallOriginMeans ==
    \A g \in Range(Origins(switches_fe)) : SmallGroupMean(Origins(switches_fe), g)

SmallDestMeans ==
    \A g \in Range(Dests(switches_fe)) : SmallGroupMean(Dests(switches_fe), g)

\* C6 as stated: whatever the input, the returned residuals have every origin
\* group mean and every destination group mean below 1e-6 in absolute value.
C6_AsStated == Step1Returned => (SmallOriginMeans /\ SmallDestMeans)

\* C6 amended: the returned residuals have every destination group mean below
\* 1e-6 in absolute value, and every origin group mean too when the loop was
\* left by its convergence test (for tables of fewer than 5000 destinations).
C6_MeansSmallOnceConverged ==
    Step1Returned => (SmallDestMeans /\ (converged => SmallOriginMeans))

\* the loop converged after several passes on a table with shared origins
\* and destinations
C6_Witness ==
    /\ Step1Returned
    /\ converged
    /\ iter > 2
    /\ Len(switches_fe) >= 3
    /\ SmallOriginMeans

\* C7 as stated: when the cap is reached without the change having fallen
\* below the tolerance, the run continues and a convergence warning is
\* surfaced in what the run prints or returns.
C7_AsStated ==
    (Step1Returned /\ ~converged) =>
        /\ pc # "error"
        /\ \E i \in 1..Len(stdout) : stdout[i] = "ConvergenceWarning"

----------------------------------------------------------------------------
(* C8: the R2 step1_ols_residualize reports *)

ReturnedResiduals == AsArray([i \in 1..Len(switches_fe) |-> switches_fe[i].residual])

\* the sum of squares of v about its mean
CentredSS(v) ==
    LET m == FxDivN(FxSum(v), Len(v))
    IN  SumSquares(AsArray([i \in 1..Len(v) |-> FxSub(v[i], m)]))

NotConstant(v) == \E i, j \in 1..Len(v) : v[i] # v[j]

\* a natural below 10^4 as a big natural
BigOfNat(k) == AsArray([i \in 1..NLimbs |-> IF i = 1 THEN k ELSE 0])

\* |a - b| <= k
BigNear(a, b, k) ==
    BigLeq(a, BigAdd(b, BigOfNat(k))) /\ BigLeq(b, BigAdd(a, BigOfNat(k)))

\* C8: the reported R2 is 1 - ss_resid / ss_total with ss_total the centred
\* sum of squares of log_switch_share and ss_resid the sum of squared returned
\* residuals, which is n * Var(residual) up to rounding (within 4n units of
\* 1e-24); when log_switch_share is not constant, R2 is a number and
\* 0 <= ss_resid <= ss_total, that is R2 lies in [0, 1].
C8_RSquaredOfCentredTotal ==
    Step1Returned =>
        LET y == LogShares(switches)
            res == ReturnedResiduals
        IN  /\ r2_fe.sst = CentredSS(y)
            /\ BigNear(r2_fe.ssr, CentredSS(res), 4 * Len(res))
            /\ NotConstant(y) =>
                /\ r2_fe.k = "fin"
                /\ BigLeq(r2_fe.ssr, r2_fe.sst)

\* an R2 strictly between 0 and 1 on a table of three rows or more
C8_Witness ==
    /\ Step1Returned
    /\ Len(switches_fe) >= 3
    /\ NotConstant(LogShares(switches))
    /\ r2_fe.k = "fin"
    /\ BigLess(BigZero, r2_fe.ssr)
    /\ BigLess(r2_fe.ssr, r2_fe.sst)

----------------------------------------------------------------------------
(* C9: cross-validation and the deployed model *)

\* the models a fit without any cross-validation before it can give
FitsWithoutCV ==
    LET X == FeatureMatrix(switches_fe, skillFile)
        y == Targets(switches_fe)
    IN  {Fit(NewForest, X, y, p) : p \in ForestPredictions(y)}

----------------------------------------------------------------------------
(* C11: what step2_random_forest does with features it cannot use *)

\* C11 as stated: when a feature value is not finite, step2_random_forest
\* ends with a ModelError and no model has been fitted.
C11_AsStated ==
    (/\ rf # NoForest
     /\ pc # "step2_cv"
     /\ ~FiniteFeatures(FeatureMatrix(switches_fe, skillFile))) =>
        /\ pc = "error"
        /\ err = "ModelError"
        /\ ~rf.fitted

----------------------------------------------------------------------------
(* C12: the normalisation of the predictions *)

\* C12 as stated: every portability_norm is a number in [0, 1], 0 at the
\* smallest prediction and 1 at the largest; when the largest prediction equals
\* the smallest, every portability_norm is 0.
C12_AsStated ==
    \A i \in 1..Len(port) :
        LET n == port[i].portability_norm
            p == Predictions(port)
        IN  /\ n.k = "fin"
            /\ IF FxMax(p) = FxMin(p)
               THEN n.num = FxZero
               ELSE /\ ~FxLess(n.num, FxZero)
                    /\ ~FxLess(n.den, n.num)
                    /\ p[i] = FxMin(p) => n.num = FxZero
                    /\ p[i] = FxMax(p) => n.num = n.den

----------------------------------------------------------------------------
(* C13: the employment-weighted aggregate *)

\* the destinations the employment file has a record for
KnownDests == {r.occ : r \in Range(empFile)}

EmpPre(d) == (CHOOSE r \in Range(empFile) : r.occ = d).emp_pre

\* the rows of the pairwise table of origin o whose destination is known
KnownRows(o) ==
    {i \in 1..Len(port) : port[i].occ_origin = o /\ port[i].occ_dest \in KnownDests}

RECURSIVE SumEmp(_)
SumEmp(I) ==
    IF I = {} THEN 0
    ELSE LET i == CHOOSE x \in I : TRUE
         IN  EmpPre(port[i].occ_dest) + SumEmp(I \ {i})

\* the sum of portability_norm * emp_pre, in units of the common denominator
RECURSIVE SumNormEmp(_)
SumNormEmp(I) ==
    IF I = {} THEN FxZero
    ELSE LET i == CHOOSE x \in I : TRUE
         IN  FxAdd(FxMulN(port[i].portability_norm.num, EmpPre(port[i].occ_dest)),
                   SumNormEmp(I \ {i}))

NormsFinite == \A i \in 1..Len(port) : port[i].portability_norm.k = "fin"

\* C13: every row of the aggregate output holds, for its origin, the sum of
\* portability_norm * emp_pre over the origin's destinations that have an
\* employment record, divided by the sum of emp_pre over the same destinations
\* (NaN when the norms are NaN); destinations without a record enter neither sum.
C13_WeightedMeanOverKnownDests ==
    \A j \in 1..Len(agg_df) :
        LET a == agg_df[j].aggregate_portability
            I == KnownRows(agg_df[j].occ2010)
        IN  /\ SumEmp(I) > 0
            /\ IF NormsFinite
               THEN /\ a.k = "fin"
                    /\ a.den = port[1].portability_norm.den
                    /\ FxMulN(a.num, SumEmp(I)) = FxMulN(SumNormEmp(I), a.cnt)
               ELSE a.k = "nan"

\* origin 1 with destinations 2 (emp_pre 5), 3 (emp_pre 1) and 4 (no record,
\* norm 1): the aggregate is (5 * norm(1,2) + norm(1,3)) / 6
C13_Witness ==
    /\ pc = "save"
    /\ NormsFinite
    /\ KnownDests = {2, 3}
    /\ Len(port) = 3
    /\ \A i \in 1..3 : port[i].occ_origin = 1 /\ port[i].occ_dest = i + 1
    /\ port[1].portability_norm.num # port[2].portability_norm.num
    /\ port[3].portability_norm.num = port[3].portability_norm.den
    /\ Len(agg_df) = 1
    /\ agg_df[1].aggregate_portability.cnt = 6
    /\ agg_df[1].aggregate_portability.num =
           FxAdd(FxMulN(port[1].portability_norm.num, 5), port[2].portability_norm.num)

----------------------------------------------------------------------------
(* C14, C15: the origins without destination employment *)

PortOrigins == {port[i].occ_origin : i \in 1..Len(port)}

AggOrigins == {agg_df[j].occ2010 : j \in 1..Len(agg_df)}

\* the origins none of whose destinations has employment to weigh with
ZeroWeightOrigins == {o \in PortOrigins : SumEmp(KnownRows(o)) = 0}

\* C14 as stated: an origin whose total destination weight is 0 has no row in
\* the aggregate and the aggregator says that it left origins out.
C14_AsStated ==
    \A o \in ZeroWeightOrigins :
        /\ o \notin AggOrigins
        /\ "Occupations excluded" \in Range(stdout)

\* the rows of the pairwise table of origin o
RowsOfOrigin(o) == {i \in 1..Len(port) : port[i].occ_origin = o}

RECURSIVE SumNorm(_)
SumNorm(I) ==
    IF I = {} THEN FxZero
    ELSE LET i == CHOOSE x \in I : TRUE
         IN  FxAdd(port[i].portability_norm.num, SumNorm(I \ {i}))

\* C15 as stated: every origin of the pairwise table has a
\* mean_pairwise_portability, the plain mean of portability_norm over all its
\* destinations, whether or not any of them has employment data.
C15_AsStated ==
    \A o \in PortOrigins :
        \E j \in 1..Len(agg_df) :
            LET m == agg_df[j].mean_pairwise_portability
                I == RowsOfOrigin(o)
            IN  /\ agg_df[j].occ2010 = o
                /\ NormsFinite =>
                       /\ m.k = "fin"
                       /\ FxMulN(m.num, Cardinality(I)) = FxMulN(SumNorm(I), m.cnt)

----------------------------------------------------------------------------
(* C16: the aggregate within the range of its origin's norms *)

\* C16 as stated: every aggregate_portability of the output is a number that
\* is no less than the smallest and no more than the largest portability_norm
\* of its origin's pairs.
C16_AsStated ==
    \A j \in 1..Len(agg_df) :
        LET a == agg_df[j].aggregate_portability
            I == RowsOfOrigin(agg_df[j].occ2010)
        IN  /\ a.k = "fin"
            /\ \E i \in I : port[i].portability_norm.k = "fin"
                            /\ ~FxLess(a.num, FxMulN(port[i].portability_norm.num, a.cnt))
            /\ \E i \in I : port[i].portability_norm.k = "fin"
                            /\ ~FxLess(FxMulN(port[i].portability_norm.num, a.cnt), a.num)

----------------------------------------------------------------------------
(* C17: the feature-importance output *)

ImportanceOut == written.rf_feature_importances

\* C17: the written importances hold every feature of the 3 * NDims feature
\* vector exactly once, each with the importance the forest gave it, in
\* non-increasing order of importance.
C17_OneEntryPerFeatureDescending ==
    pc = "done" =>
        /\ Len(ImportanceOut) = 3 * NDims
        /\ \A kind \in {"origin", "dest", "diff"}, c \in 1..NDims :
               Cardinality({i \in 1..Len(ImportanceOut) :
                               ImportanceOut[i].feature = <<kind, c>>}) = 1
        /\ \A i \in 1..Len(ImportanceOut) :
               \E j \in 1..Len(importances) :
                   /\ importances[j].feature = ImportanceOut[i].feature
                   /\ importances[j].importance = ImportanceOut[i].importance
                   /\ importances[j].importance = rf.feature_importances[j]
        /\ \A i \in 1..(Len(ImportanceOut) - 1) :
               ImportanceOut[i].importance >= ImportanceOut[i + 1].importance

\* a forest whose first feature is the least important and whose last is not
C17_Witness ==
    /\ pc = "done"
    /\ importances[1].importance = 0
    /\ importances[3 * NDims].importance = 1
    /\ ImportanceOut[1].importance = 2
    /\ ImportanceOut[3 * NDims].feature = <<"origin", 1>>

----------------------------------------------------------------------------
(* C18: non-finite values in the outputs *)

\* C18 as stated: a run that ends normally has reported a number as its R^2
\* and has written no NaN aggregate_portability or mean_pairwise_portability.
C18_AsStated ==
    pc = "done" =>
        /\ r2_fe.k = "fin"
        /\ \A j \in 1..Len(written.aggregate_skill_portability) :
               /\ written.aggregate_skill_portability[j].aggregate_portability.k = "fin"
               /\ written.aggregate_skill_portability[j].mean_pairwise_portability.k = "fin"

----------------------------------------------------------------------------
(* C19: how the residualizer's loop ends *)

\* every row's change over a pass is below 1e-10 in absolute value
EveryChangeSmall(new, old) ==
    \A i \in 1..Len(new) : FxLess(FxAbs(FxSub(new[i], old[i])), FxOfUnits(Tol))

----------------------------------------------------------------------------
(* C20: what one pass of the loop does *)

RECURSIVE SumOver(_, _)
SumOver(v, I) ==
    IF I = {} THEN FxZero
    ELSE LET i == CHOOSE x \in I : TRUE IN FxAdd(v[i], SumOver(v, I \ {i}))

\* the rows of the table that share row i's origin, or its destination
SameOrigin(i) == {j \in 1..Len(switches) : switches[j].occ_origin = switches[i].occ_origin}

SameDest(i) == {j \in 1..Len(switches) : switches[j].occ_dest = switches[i].occ_dest}

\* v less the mean of v over each row's origin group
LessOriginMean(v) ==
    AsArray([i \in 1..Len(v) |->
        FxSub(v[i], FxDivN(SumOver(v, SameOrigin(i)), Cardinality(SameOrigin(i))))])

\* v less the mean of v over each row's destination group
LessDestMean(v) ==
    AsArray([i \in 1..Len(v) |->
        FxSub(v[i], FxDivN(SumOver(v, SameDest(i)), Cardinality(SameDest(i))))])

\* C20: a pass turns the residuals r into r1 less the destination group means
\* of r1, where r1 is r less the origin group means of r; after it every
\* destination group's residuals sum to 0 within the rounding of the division
\* (less than 1e-12 per row).
C20_OriginThenDestOfUpdated ==
    [][(pc = "step1_loop" /\ iter' = iter + 1) =>
          /\ residuals' = LessDestMean(LessOriginMean(residuals))
          /\ \A i \in 1..Len(switches) :
                 FxLess(FxAbs(SumOver(residuals', SameDest(i))),
                        FxOfUnits(Cardinality(SameDest(i))))]_vars

\* one pass made on a table where two origins share a destination and the
\* origin means moved the residuals
C20_Witness ==
    /\ pc = "step1_loop"
    /\ iter = 1
    /\ \E i, j \in 1..Len(switches) :
           /\ switches[i].occ_dest = switches[j].occ_dest
           /\ switches[i].occ_origin # switches[j].occ_origin
    /\ LessOriginMean(LogShares(switches)) # LogShares(switches)
    /\ residuals = LessDestMean(LessOriginMean(LogShares(switches)))
    /\ residuals # LessOriginMean(LessDestMean(LogShares(switches)))

----------------------------------------------------------------------------
(* C21: the order of the stages in main *)

\* how far main has come
StageRank(p) ==
    CASE p = "start" -> 0
      [] p = "step1" -> 1
      [] p = "step1_loop" -> 2
      [] p = "step2" -> 3
      [] p = "step2_cv" -> 4
      [] p = "step2_fit" -> 5
      [] p = "aggregate" -> 6
      [] p = "save" -> 7
      [] p = "done" -> 8
      [] p = "error" -> 9

\* how often a stage has printed its banner
TimesPrinted(banner) == Cardinality({i \in 1..Len(stdout) : stdout[i] = banner})

StageBanners ==
    <<"Building switching regression data", "Step 1: OLS residualization",
      "Step 2: Random Forest", "Computing aggregate skill portability">>

\* C21: main only moves forward through Builder, Residualizer, Learner and
\* Aggregator (the residualizer's loop aside), so no stage is entered twice; a
\* stage's result is not changed once a later stage has started; nothing is
\* written before the aggregator has returned; and a run that ends normally
\* has run each of the four stages exactly once.
C21_StagesInOrderOnce ==
    [][/\ StageRank(pc') > StageRank(pc) \/ (pc = "step1_loop" /\ pc' = "step1_loop")
       /\ StageRank(pc') <= StageRank(pc) + 1 \/ pc' = "error"
       /\ StageRank(pc) >= 1 =>
              /\ switches' = switches
              /\ <<switchFile', stayerFile', skillFile'>> = <<switchFile, stayerFile, skillFile>>
       /\ StageRank(pc) >= 3 => <<switches_fe', r2_fe', residuals'>> = <<switches_fe, r2_fe, residuals>>
       /\ StageRank(pc) >= 6 => <<switches_rf', rf', importances'>> = <<switches_rf, rf, importances>>
       /\ StageRank(pc) >= 7 => <<agg_df', port'>> = <<agg_df, port>>
       /\ StageRank(pc) < 3 => switches_fe' = <<>> \/ pc' = "step2"
       /\ StageRank(pc) < 5 => switches_rf' = <<>>
       /\ StageRank(pc) < 6 => agg_df' = <<>> /\ port' = <<>>
       /\ written' # written => pc = "save" /\ pc' = "done"
       /\ \A b \in 1..4 : TimesPrinted(StageBanners[b])' <= 1
       /\ pc' = "done" => \A b \in 1..4 : TimesPrinted(StageBanners[b])' = 1]_vars

\* a run that went through the four stages and wrote its tables
C21_Witness ==
    /\ pc = "done"
    /\ Len(written.pairwise_skill_portability) >= CvFolds
    /\ Len(written.aggregate_skill_portability) > 0
    /\ \A b \in 1..4 : TimesPrinted(StageBanners[b]) = 1

----------------------------------------------------------------------------
(* C22: the tables the stages are given *)

\* table new is table old with one more column: the same rows in the same
\* order, every old column with its old value
AddsColumn(new, old, col) ==
    /\ Len(new) = Len(old)
    /\ \A i \in 1..Len(old) :
           /\ col \notin DOMAIN old[i]
           /\ DOMAIN new[i] = DOMAIN old[i] \cup {col}
           /\ \A f \in DOMAIN old[i] : new[i][f] = old[i][f]

\* C22: while step1_ols_residualize runs, the table it was given and the
\* skill table stay as they are and what it returns is that table with a
\* residual column added; the same for step2_random_forest with the residual
\* table and predicted_skill_portability; compute_aggregate_portability leaves
\* the prediction table and the skill table as they are.
C22_StagesLeaveInputsAlone ==
    [][/\ pc \in {"step1", "step1_loop"} =>
              /\ switches' = switches
              /\ skillFile' = skillFile
              /\ pc' = "step2" => AddsColumn(switches_fe', switches, "residual")
       /\ pc \in {"step2", "step2_cv", "step2_fit"} =>
              /\ switches_fe' = switches_fe
              /\ skillFile' = skillFile
              /\ pc' = "aggregate" =>
                     AddsColumn(switches_rf', switches_fe, "predicted_skill_portability")
       /\ pc = "aggregate" =>
              /\ switches_rf' = switches_rf
              /\ skillFile' = skillFile
              /\ Len(port') = Len(switches_rf)
              /\ \A i \in 1..Len(switches_rf) :
                     "portability_norm" \notin DOMAIN switches_rf'[i]]_vars

\* after the aggregator: the builder's table has no residual, the
\* residualizer's no prediction, the learner's no norm
C22_Witness ==
    /\ pc = "save"
    /\ Len(switches) >= CvFolds
    /\ AddsColumn(switches_fe, switches, "residual")
    /\ AddsColumn(switches_rf, switches_fe, "predicted_skill_portability")
    /\ "portability_norm" \in DOMAIN port[1]
    /\ "portability_norm" \notin DOMAIN switches_rf[1]

----------------------------------------------------------------------------
(* C23: the layout of the learner's features *)

\* C23: the forest was fitted on one feature vector per pair, of 3 * NDims
\* entries: the origin's skill values, the destination's, then origin minus
\* destination (NaN where either is), each block in the skill table's column
\* order; the importances are labelled origin, dest, diff in that same order.
C23_FeatureLayout ==
    rf.fitted =>
        /\ Len(rf.train_X) = Len(switches_fe)
        /\ \A i \in 1..Len(switches_fe) :
               LET x == rf.train_X[i]
                   o == skillFile[switches_fe[i].occ_origin]
                   d == skillFile[switches_fe[i].occ_dest]
               IN  /\ Len(x) = 3 * NDims
                   /\ \A c \in 1..NDims :
                          /\ x[c] = o[c]
                          /\ x[NDims + c] = d[c]
                          /\ x[2 * NDims + c] =
                                 IF SkillNaN \in {o[c], d[c]} THEN SkillNaN ELSE o[c] - d[c]
        /\ Len(importances) = 3 * NDims
        /\ \A c \in 1..NDims :
               /\ importances[c].feature = <<"origin", c>>
               /\ importances[NDims + c].feature = <<"dest", c>>
               /\ importances[2 * NDims + c].feature = <<"diff", c>>
        /\ \A j \in 1..(3 * NDims) :
               importances[j].importance = rf.feature_importances[j]

\* a fitted forest with a pair whose two skill profiles differ in every column
C23_Witness ==
    /\ rf.fitted
    /\ Len(switches_fe) >= CvFolds
    /\ FiniteFeatures(rf.train_X)
    /\ \A c \in 1..NDims : rf.train_X[1][2 * NDims + c] # 0
    /\ \E c \in 1..NDims : rf.train_X[1][c] # rf.train_X[1][NDims + c]

----------------------------------------------------------------------------
(* C24: which origins the aggregate output holds *)

\* C24 as stated: the aggregate output has a row for exactly the origins
\* whose destinations' emp_pre sum to more than 0, and in every row both
\* aggregate_portability and mean_pairwise_portability are present (not NaN).
C24_AsStated ==
    /\ AggOrigins = PortOrigins \ ZeroWeightOrigins
    /\ \A j \in 1..Len(agg_df) :
           /\ agg_df[j].aggregate_portability.k = "fin"
           /\ agg_df[j].mean_pairwise_portability.k = "fin"

----------------------------------------------------------------------------
(* C25: the rows the floor is taken over *)

\* the positive weighted_switches of the joined self-pairs
SelfPositive ==
    {e.weighted_switches :
        e \in {x \in Eligible : x.weighted_switches > 0 /\ x.occ_origin = x.occ_dest}}

\* the positive weighted_switches of the joined pairs that are returned or
\* would be but for their log
OtherPositive ==
    {e.weighted_switches :
        e \in {x \in Eligible : x.weighted_switches > 0 /\ x.occ_origin # x.occ_dest}}

\* C25: every returned row with weighted_switches = 0 has switch_share = m /
\* its stayers, m being the smallest positive weighted_switches of the joined
\* pairs, self-pairs included; a zero-switch pair with positive stayers is
\* returned exactly when there is such an m, so a positive pair that the skill
\* filter or the join removes has no part in it and a positive self-pair has.
C25_FloorOverJoinedWithSelfPairs ==
    Built =>
        /\ \A r \in Range(switches) :
               r.weighted_switches = 0 =>
                   /\ SelfPositive \cup OtherPositive # {}
                   /\ FloatEq(r.switch_share,
                              Fin(SetMin(SelfPositive \cup OtherPositive), r.weighted_stayers))
        /\ \A e \in ZeroPairs :
               (RowsOf(e) # {}) <=> (SelfPositive \cup OtherPositive # {})

\* a zero-switch pair floored with the weight of a self-pair, which is not
\* returned and is the only positive joined pair
C25_Witness ==
    /\ Built
    /\ OtherPositive = {}
    /\ SelfPositive # {}
    /\ \E r \in Range(switches) :
           /\ r.weighted_switches = 0
           /\ FloatEq(r.switch_share, Fin(SetMin(SelfPositive), r.weighted_stayers))
    /\ \A r \in Range(switches) : r.occ_origin # r.occ_dest

----------------------------------------------------------------------------
(* C26: the pairs from the builder to the pairwise output *)

\* table t holds the builder's pairs, row for row, each with its log share
SamePairsAsBuilt(t) ==
    /\ Len(t) = Len(switches)
    /\ \A i \in 1..Len(switches) :
           /\ t[i].occ_origin = switches[i].occ_origin
           /\ t[i].occ_dest = switches[i].occ_dest
           /\ t[i].log_switch_share = switches[i].log_switch_share

\* C26: the table the residualizer returns, the table the learner returns and
\* the written pairwise table each hold exactly the builder's rows, in the
\* builder's order, with the same pair and the same log_switch_share.
C26_PairsPreserved ==
    /\ Step1Returned => SamePairsAsBuilt(switches_fe)
    /\ rf.fitted => SamePairsAsBuilt(switches_rf)
    /\ pc = "done" => SamePairsAsBuilt(written.pairwise_skill_portability)

\* a finished run on pairs whose log shares are not all the same
C26_Witness ==
    /\ pc = "done"
    /\ Len(switches) >= CvFolds
    /\ \E i, j \in 1..Len(switches) :
           switches[i].log_switch_share # switches[j].log_switch_share
    /\ SamePairsAsBuilt(written.pairwise_skill_portability)

====
